---- MODULE Spec2Model ----
(***************************************************************************)
(* A model of search.py: connectivity queries over the co-appearance graph *)
(* of film actors.  The database `data` is a list of (actor, actor, film)  *)
(* tuples.  The pure helpers are operators computed the way the Python     *)
(* computes them; actor_path, with its `while agenda` loop and the loop of *)
(* construct_path, is a step machine, so that its termination is a         *)
(* property of the behaviours and not of the definitions.                  *)
(*                                                                         *)
(* A Python value that a function returns or raises is a record:           *)
(*   [tag |-> "value", val |-> v]    an ordinary return value              *)
(*   [tag |-> "None"]                the return value None                 *)
(*   [tag |-> "raise", exc |-> e]    an exception that leaves the function *)
(* Python sets are iterated in an order the program does not fix; every    *)
(* `for x in <set>` of the source draws an order here.                     *)
(***************************************************************************)
EXTENDS Integers, Sequences, FiniteSets, TLC

VARIABLES
    data,            \* the record list the query runs over
    op,              \* the top-level function that was called
    args,            \* its arguments, as a tuple
    pc,              \* "idle" | "while" | "construct" | "done"
    actor_id_1,      \* actor_path: the start actor
    goal,            \* actor_path: the set of ids goal_test_function accepts
    agenda,          \* actor_path: the current frontier
    seen,            \* actor_path: the actors of the earlier frontiers
    relations,       \* actor_path: child -> parent
    path,            \* construct_path: the list built so far (goal first)
    pending,         \* actors_connecting_films: film_1_actors not yet iterated
    possible_paths,  \* actors_connecting_films: the results collected so far
    ret              \* what the top-level function returned or raised

vars == <<data, op, args, pc, actor_id_1, goal, agenda, seen, relations,
          path, pending, possible_paths, ret>>

(***************************************************************************)
(* Bounds of the model and the one constant of the program.                *)
(***************************************************************************)
Bacon == 4724

NumActors == 2

NumFilms == 2

MaxRecords == 3

\* Actor ids: Bacon and the small integers.  Film ids are small integers
\* too, so that a film id can equal an actor id, as in the databases.
ActorIds == (1 .. NumActors) \cup {Bacon}

FilmIds == 1 .. NumFilms

Records == ActorIds \X ActorIds \X FilmIds

SeqsUpTo(S, n) == UNION {[1 .. k -> S] : k \in 0 .. n}

\* Requested Bacon numbers: one beyond anything MaxRecords records can reach.
BaconNumbers == 0 .. (MaxRecords + 1)

\* The two actors of a record, the smaller id first.
Lo(r) == IF r[1] <= r[2] THEN r[1] ELSE r[2]

Hi(r) == IF r[1] <= r[2] THEN r[2] ELSE r[1]

\* An order on the unordered pairs of actors.
Before(r, s) == Lo(r) < Lo(s) \/ (Lo(r) = Lo(s) /\ Hi(r) < Hi(s))

\* The databases of the path searches: up to GraphEdges links among the
\* actors 1 .. GraphActors, each pair of two different actors at most once,
\* the pairs in increasing order, all in film 1.  (actor_path reads a
\* record's film nowhere.)
GraphActors == 4

GraphEdges == 6

GraphIds == 1 .. GraphActors

Links == {r \in GraphIds \X GraphIds \X {1} : r[1] < r[2]}

RECURSIVE InOrder(_)
InOrder(S) ==
    IF S = {} THEN <<>>
    ELSE LET first == CHOOSE r \in S : \A s \in S \ {r} : Before(r, s)
         IN  <<first>> \o InOrder(S \ {first})

EdgeLists == {InOrder(S) : S \in {T \in SUBSET Links : Cardinality(T) <= GraphEdges}}

\* The databases of the film searches: up to MovieRecords records of any
\* actors and films, either actor first, a pair as often as there is room,
\* the records of one pair next to each other.
MovieRecords == 2

FilmLists ==
    {l \in SeqsUpTo(Records, MovieRecords) : \A k \in 1 .. (Len(l) - 1) : ~Before(l[k + 1], l[k])}

(***************************************************************************)
(* Python values.                                                          *)
(***************************************************************************)
Value(v) == [tag |-> "value", val |-> v]

None == [tag |-> "None"]

Raise(e) == [tag |-> "raise", exc |-> e]

NoValue == [tag |-> "unset"]

EmptyDict == [x \in {} |-> {}]

\* x in t, for a tuple t
InTuple(x, t) == \E k \in 1 .. Len(t) : t[k] = x

\* list.reverse()
Reverse(s) == [k \in 1 .. Len(s) |-> s[Len(s) + 1 - k]]

\* The orders in which a set can be iterated.
Orders(S) == {o \in [1 .. Cardinality(S) -> S] : \A x \in S : \E k \in DOMAIN o : o[k] = x}

(***************************************************************************)
(* acted_together                                                          *)
(***************************************************************************)
acted_together(dat, a1, a2) ==
    \E k \in 1 .. Len(dat) : InTuple(a1, dat[k]) /\ InTuple(a2, dat[k])

(***************************************************************************)
(* mapped_actors: {actor: set of co-stars}, built record by record.        *)
(***************************************************************************)
\* As AddCoStar, but the set of co-stars is begun anew at every record.
AddCoStar_anew(d, a, b) == [x \in DOMAIN d \cup {a} |-> IF x = a THEN {b} ELSE d[x]]

\* Lines 36-38 and 40-42: d[a].add(b), after d[a] = set() for a new key.
AddCoStar(d, a, b) ==
    IF a \in DOMAIN d
    THEN [d EXCEPT ![a] = @ \cup {b}]
    ELSE [x \in DOMAIN d \cup {a} |-> IF x = a THEN {b} ELSE d[x]]

RECURSIVE mapped_actors_loop(_, _, _)
mapped_actors_loop(dat, k, d) ==
    IF k > Len(dat) THEN d
    ELSE mapped_actors_loop(dat, k + 1,
             AddCoStar(AddCoStar(d, dat[k][1], dat[k][2]), dat[k][2], dat[k][1]))

mapped_actors(dat) == mapped_actors_loop(dat, 1, EmptyDict)

(***************************************************************************)
(* actors_to_movie: {(actor, actor): film}; a later record overwrites.     *)
(***************************************************************************)
\* As SetItem, but the first value of a key stays.
SetItem_keep(d, key, v) ==
    IF key \in DOMAIN d THEN d
    ELSE [x \in DOMAIN d \cup {key} |-> IF x = key THEN v ELSE d[x]]

\* d[key] = v
SetItem(d, key, v) == [x \in DOMAIN d \cup {key} |-> IF x = key THEN v ELSE d[x]]

RECURSIVE actors_to_movie_loop(_, _, _)
actors_to_movie_loop(dat, k, d) ==
    IF k > Len(dat) THEN d
    ELSE actors_to_movie_loop(dat, k + 1,
             SetItem(SetItem(d, <<dat[k][1], dat[k][2]>>, dat[k][3]),
                     <<dat[k][2], dat[k][1]>>, dat[k][3]))

actors_to_movie(dat) == actors_to_movie_loop(dat, 1, EmptyDict)

(***************************************************************************)
(* actors_in_a_movie                                                       *)
(***************************************************************************)
actors_in_a_movie(dat, film) ==
    LET dic == actors_to_movie(dat)
    IN  UNION {{actors[1], actors[2]} : actors \in {p \in DOMAIN dic : dic[p] = film}}

(***************************************************************************)
(* actors_with_bacon_number                                                *)
(***************************************************************************)
\* One pass of the while loop: the layer after `layer`.
NextLayer(d, layer, seenSoFar) ==
    {a \in UNION {d[actor] : actor \in layer} : a \notin seenSoFar}

RECURSIVE bacon_loop(_, _, _, _, _)
bacon_loop(d, b_num_dic, seenSoFar, num, n) ==
    IF num <= n
    THEN LET nxt == NextLayer(d, b_num_dic[num], seenSoFar)
         IN  bacon_loop(d, [x \in 0 .. (num + 1) |->
                               IF x = num + 1 THEN nxt ELSE b_num_dic[x]],
                        seenSoFar \cup nxt, num + 1, n)
    ELSE b_num_dic[n]

actors_with_bacon_number(dat, n) ==
    LET d == mapped_actors(dat)
    IN  IF n > Cardinality(DOMAIN d) - 1 THEN Value({})
        ELSE IF Bacon \notin DOMAIN d THEN Raise("KeyError")
        ELSE Value(bacon_loop(d, [x \in 0 .. 1 |-> IF x = 0 THEN {Bacon} ELSE d[Bacon]],
                              {Bacon} \cup d[Bacon], 1, n))

(***************************************************************************)
(* movie_path: the film ids handed to get_movie_names.                     *)
(***************************************************************************)
RECURSIVE movies_loop(_, _, _, _)
movies_loop(dic, p, i, movies) ==
    IF i > Len(p) THEN movies
    ELSE movies_loop(dic, p, i + 1,
             IF <<p[i - 1], p[i]>> \in DOMAIN dic
             THEN Append(movies, dic[<<p[i - 1], p[i]>>])
             ELSE movies)

movies_of_path(dat, r) ==
    IF r.tag = "None" THEN Raise("TypeError")
    ELSE Value(movies_loop(actors_to_movie(dat), r.val, 2, <<>>))

(***************************************************************************)
(* min(possible_paths, key = len)                                          *)
(***************************************************************************)
min_by_len(paths) ==
    IF Len(paths) = 0 THEN Raise("ValueError")
    ELSE IF \E k \in 1 .. Len(paths) : paths[k].tag = "None" THEN Raise("TypeError")
    ELSE LET best == CHOOSE k \in 1 .. Len(paths) :
                        /\ \A m \in 1 .. Len(paths) : Len(paths[k].val) <= Len(paths[m].val)
                        /\ \A m \in 1 .. (k - 1) : Len(paths[m].val) > Len(paths[k].val)
         IN  paths[best]

(***************************************************************************)
(* Initial states: a database, and no call made yet.                       *)
(***************************************************************************)
Idle ==
    /\ op = "none" /\ args = <<>> /\ pc = "idle"
    /\ actor_id_1 = 0 /\ goal = {} /\ agenda = {} /\ seen = {}
    /\ relations = EmptyDict /\ path = <<>>
    /\ pending = {} /\ possible_paths = <<>>
    /\ ret = NoValue

Init ==
    /\ data \in SeqsUpTo(Records, MaxRecords)
    /\ Idle

(***************************************************************************)
(* The functions without loops of their own run in one step.               *)
(***************************************************************************)
Return(name, a, r) ==
    /\ op' = name /\ args' = a /\ pc' = "done" /\ ret' = r
    /\ UNCHANGED <<data, actor_id_1, goal, agenda, seen, relations, path,
                   pending, possible_paths>>

Call_acted_together ==
    /\ pc = "idle"
    /\ \E a1 \in ActorIds, a2 \in ActorIds :
           Return("acted_together", <<a1, a2>>, Value(acted_together(data, a1, a2)))

Call_actors_with_bacon_number ==
    /\ pc = "idle"
    /\ \E n \in BaconNumbers :
           Return("actors_with_bacon_number", <<n>>, actors_with_bacon_number(data, n))

Call_actors_in_a_movie ==
    /\ pc = "idle"
    /\ \E film \in FilmIds :
           Return("actors_in_a_movie", <<film>>, Value(actors_in_a_movie(data, film)))

(***************************************************************************)
(* actor_path                                                              *)
(***************************************************************************)
\* Lines 176-179: the state before the first `while agenda` test.
EnterActorPath(start, g) ==
    /\ actor_id_1' = start /\ goal' = g
    /\ agenda' = {start} /\ seen' = {start}
    /\ relations' = EmptyDict /\ path' = <<>>
    /\ pc' = "while"

CallActorPath(ids) ==
    /\ pc = "idle"
    /\ \E start \in ids, g \in SUBSET ids :
           /\ op' = "actor_path" /\ args' = <<start, g>>
           /\ EnterActorPath(start, g)
    /\ UNCHANGED <<data, pending, possible_paths, ret>>

Call_actor_path == CallActorPath(ActorIds)

Call_actor_path_links == CallActorPath(GraphIds)

\* actor_to_actor_path (and bacon_path, which is the case a1 = Bacon).
Call_actor_to_actor_path ==
    /\ pc = "idle"
    /\ \E a1 \in ActorIds, a2 \in ActorIds :
           /\ op' = "actor_to_actor_path" /\ args' = <<a1, a2>>
           /\ EnterActorPath(a1, {a2})
    /\ UNCHANGED <<data, pending, possible_paths, ret>>

Call_movie_path ==
    /\ pc = "idle"
    /\ \E a1 \in ActorIds, a2 \in ActorIds :
           /\ op' = "movie_path" /\ args' = <<a1, a2>>
           /\ EnterActorPath(a1, {a2})
    /\ UNCHANGED <<data, pending, possible_paths, ret>>

Call_actors_connecting_films ==
    /\ pc = "idle"
    /\ \E film1 \in FilmIds, film2 \in FilmIds :
           LET film_1_actors == actors_in_a_movie(data, film1)
               film_2_actors == actors_in_a_movie(data, film2)
           IN  /\ op' = "actors_connecting_films" /\ args' = <<film1, film2>>
               /\ possible_paths' = <<>>
               /\ IF film_1_actors = {}
                  THEN /\ pc' = "done" /\ ret' = min_by_len(<<>>)
                       /\ pending' = {}
                       /\ UNCHANGED <<actor_id_1, goal, agenda, seen, relations, path>>
                  ELSE \E actor \in film_1_actors :
                           /\ pending' = film_1_actors \ {actor}
                           /\ EnterActorPath(actor, film_2_actors)
                           /\ UNCHANGED ret
    /\ UNCHANGED data

\* What the caller does with the value actor_path returns.
ActorPathReturns(r) ==
    CASE op = "movie_path" ->
             /\ pc' = "done" /\ ret' = movies_of_path(data, r)
             /\ UNCHANGED <<pending, possible_paths, actor_id_1, goal>>
      [] op = "actors_connecting_films" ->
             /\ possible_paths' = Append(possible_paths, r)
             /\ IF pending = {}
                THEN /\ pc' = "done" /\ ret' = min_by_len(possible_paths')
                     /\ UNCHANGED <<pending, actor_id_1, goal>>
                ELSE \E actor \in pending :
                         /\ pending' = pending \ {actor}
                         /\ actor_id_1' = actor
                         /\ pc' = "while"
                         /\ UNCHANGED <<ret, goal>>
      [] OTHER ->
             /\ pc' = "done" /\ ret' = r
             /\ UNCHANGED <<pending, possible_paths, actor_id_1, goal>>

\* An exception inside actor_path leaves every caller.
ActorPathRaises(e) ==
    /\ pc' = "done" /\ ret' = Raise(e)
    /\ UNCHANGED <<pending, possible_paths, actor_id_1, goal, agenda, seen, relations, path>>

\* The children of the frontier, lines 184-191, iterating agenda in order ord:
\* relations[j] is written for each parent of j, so the last parent stays.
\* As LastParent, but the child is mapped to the first actor of the frontier,
\* a co-star or not.
LastParent_first(map, ord, j) == ord[1]

LastParent(map, ord, j) ==
    LET k == CHOOSE k \in DOMAIN ord :
                 /\ j \in map[ord[k]]
                 /\ \A m \in DOMAIN ord : (m > k) => j \notin map[ord[m]]
    IN  ord[k]

Children(map, ag, sn) ==
    {j \in UNION {map[i] : i \in ag} : j \notin sn /\ j \notin ag}

\* The first actor of the frontier, in order ord, that the goal test accepts.
FirstGoal(ord, g) ==
    LET k == CHOOSE k \in DOMAIN ord :
                 /\ ord[k] \in g
                 /\ \A m \in 1 .. (k - 1) : ord[m] \notin g
    IN  ord[k]

\* `while agenda:` is false: line 206.
WhileAgendaEmpty ==
    /\ pc = "while" /\ agenda = {}
    /\ ActorPathReturns(None)
    /\ IF pc' = "while"
       THEN /\ agenda' = {actor_id_1'} /\ seen' = {actor_id_1'}
            /\ relations' = EmptyDict /\ path' = <<>>
       ELSE UNCHANGED <<agenda, seen, relations, path>>
    /\ UNCHANGED <<data, op, args>>

\* One pass of the body of `while agenda:`, lines 184-203.
WhileAgenda ==
    /\ pc = "while" /\ agenda # {}
    /\ LET map_of_actors == mapped_actors(data)
       IN  IF \E i \in agenda : i \notin DOMAIN map_of_actors
           THEN ActorPathRaises("KeyError")
           ELSE \E ord \in Orders(agenda) :
                    LET next_agenda == Children(map_of_actors, agenda, seen)
                        rel == [j \in DOMAIN relations \cup next_agenda |->
                                   IF j \in next_agenda
                                   THEN LastParent(map_of_actors, ord, j)
                                   ELSE relations[j]]
                    IN  /\ relations' = rel
                        /\ IF agenda \cap goal # {}
                           THEN /\ pc' = "construct"
                                /\ path' = <<FirstGoal(ord, goal)>>
                                /\ UNCHANGED <<agenda, seen>>
                           ELSE /\ seen' = seen \cup agenda
                                /\ agenda' = next_agenda
                                /\ UNCHANGED <<pc, path>>
                        /\ UNCHANGED <<pending, possible_paths, actor_id_1, goal, ret>>
    /\ UNCHANGED <<data, op, args>>

\* construct_path(relations, id_, actor_id_1): one test of `while end != start`.
ConstructPath ==
    /\ pc = "construct"
    /\ LET start == path[Len(path)]
       IN  IF actor_id_1 # start
           THEN IF start \in DOMAIN relations
                THEN /\ path' = Append(path, relations[start])
                     /\ UNCHANGED <<pc, pending, possible_paths, actor_id_1, goal,
                                    agenda, seen, relations, ret>>
                ELSE ActorPathRaises("KeyError")
           ELSE /\ ActorPathReturns(Value(Reverse(path)))
                /\ IF pc' = "while"
                   THEN /\ agenda' = {actor_id_1'} /\ seen' = {actor_id_1'}
                        /\ relations' = EmptyDict /\ path' = <<>>
                   ELSE UNCHANGED <<agenda, seen, relations, path>>
    /\ UNCHANGED <<data, op, args>>

Next ==
    \/ Call_acted_together
    \/ Call_actors_with_bacon_number
    \/ Call_actors_in_a_movie
    \/ Call_actor_path
    \/ Call_actor_to_actor_path
    \/ Call_movie_path
    \/ Call_actors_connecting_films
    \/ WhileAgendaEmpty
    \/ WhileAgenda
    \/ ConstructPath

Spec == Init /\ [][Next]_vars

(***************************************************************************)
(* actor_path alone, over the link lists.                                  *)
(***************************************************************************)
InitPath ==
    /\ data \in EdgeLists
    /\ Idle

NextPath ==
    \/ Call_actor_path_links
    \/ WhileAgendaEmpty
    \/ WhileAgenda
    \/ ConstructPath

SpecPath == InitPath /\ [][NextPath]_vars

(***************************************************************************)
(* movie_path alone, over the film lists.                                  *)
(***************************************************************************)
InitMovies ==
    /\ data \in FilmLists
    /\ Idle

NextMovies ==
    \/ Call_movie_path
    \/ WhileAgendaEmpty
    \/ WhileAgenda
    \/ ConstructPath

SpecMovies == InitMovies /\ [][NextMovies]_vars

(***************************************************************************)
(* What the claims speak of, read off the record list itself and not off   *)
(* the dictionaries the program builds.                                    *)
(***************************************************************************)
\* Record k has a and b as its two actors, either one first.
Paired(k, a, b) ==
    \/ data[k][1] = a /\ data[k][2] = b
    \/ data[k][1] = b /\ data[k][2] = a

CoStars(a, b) == \E k \in DOMAIN data : Paired(k, a, b)

\* The actors of the records: the keys of the adjacency map.
Appearing == {data[k][1] : k \in DOMAIN data} \cup {data[k][2] : k \in DOMAIN data}

\* The actors at most n links away from s.
RECURSIVE Within(_, _)
Within(s, n) ==
    IF n = 0 THEN {s}
    ELSE LET w == Within(s, n - 1)
         IN  w \cup {b \in Appearing : \E a \in w : CoStars(a, b)}

Reachable(s) == Within(s, Cardinality(Appearing))

AtDistance(s, n) == IF n = 0 THEN {s} ELSE Within(s, n) \ Within(s, n - 1)

\* The cast of a film: every actor of a record labelled with it.
Cast(film) ==
    {a \in Appearing : \E k \in DOMAIN data : data[k][3] = film /\ (data[k][1] = a \/ data[k][2] = a)}

\* The film of the last record that pairs a with b.
LastFilm(a, b) ==
    LET k == CHOOSE k \in DOMAIN data :
                 Paired(k, a, b) /\ \A m \in DOMAIN data : (m > k) => ~Paired(m, a, b)
    IN  data[k][3]

Done(name) == pc = "done" /\ op = name

\* actors_in_a_movie gave the casts of both films of the call.
BothCastsRight ==
    /\ actors_in_a_movie(data, args[1]) = Cast(args[1])
    /\ actors_in_a_movie(data, args[2]) = Cast(args[2])

(***************************************************************************)
(* C1.  A path that actor_path returns for a start actor that is a key of  *)
(* the adjacency map begins with the start actor, ends with an actor the   *)
(* goal test accepts, links co-stars at every step, and has as many links  *)
(* as the nearest accepted actor is away: none is reachable in fewer.      *)
(* This holds for every order in which the frontier is iterated.           *)
(***************************************************************************)
PathIsShortest ==
    (Done("actor_path") /\ args[1] \in Appearing /\ ret.tag = "value") =>
        LET p == ret.val
            start == args[1]
            g == args[2]
        IN  /\ Len(p) >= 1
            /\ p[1] = start
            /\ p[Len(p)] \in g
            /\ \A i \in 1 .. (Len(p) - 1) : CoStars(p[i], p[i + 1])
            /\ Within(start, Len(p) - 1) \cap g # {}
            /\ (Len(p) >= 2) => (Within(start, Len(p) - 2) \cap g = {})

\* A path of two links was returned where a second middle actor would have
\* done as well: the frontier held two parents of the goal.
PathThroughOneOfTwo ==
    /\ Done("actor_path") /\ args[1] \in Appearing /\ ret.tag = "value"
    /\ Len(ret.val) = 3
    /\ \E m \in Appearing \ {ret.val[1], ret.val[2], ret.val[3]} :
           CoStars(ret.val[1], m) /\ CoStars(m, ret.val[3])

(***************************************************************************)
(* C2.  For a start actor that is a key of the adjacency map, actor_path   *)
(* comes to an end, it raises nothing, and it returns None exactly when no *)
(* actor reachable from the start (the start included) passes the goal     *)
(* test; so a goal in another component gives None.                        *)
(*                                                                         *)
(* That it comes to an end is stated by a measure: a pass of `while        *)
(* agenda` that stays in the loop lowers PassesLeft, a natural number (the *)
(* frontier and the seen actors are actors of the records); a pass of the  *)
(* loop of construct_path that stays in it lengthens the path, which never *)
(* gets longer than the actors seen, plus one.  Neither loop can go round  *)
(* for ever, and the interpreter does not stop inside a call.              *)
(***************************************************************************)
PassesLeft ==
    IF agenda = {} THEN 0
    ELSE 1 + Cardinality((Appearing \cup {actor_id_1}) \ (seen \cup agenda))

ActorPathEndsAndNoneIffUnreachable ==
    /\ [](Done("actor_path") /\ args[1] \in Appearing =>
             /\ ret.tag \in {"None", "value"}
             /\ (ret.tag = "None") <=> (Reachable(args[1]) \cap args[2] = {}))
    /\ [](pc \in {"while", "construct"} /\ op = "actor_path" /\ actor_id_1 \in Appearing =>
             /\ seen \cup agenda \subseteq Appearing
             /\ Len(path) <= Cardinality(seen) + 1)
    /\ [][pc = "while" /\ pc' = "while" /\ op = "actor_path" /\ actor_id_1 \in Appearing =>
              PassesLeft' < PassesLeft]_vars
    /\ [][pc = "construct" /\ pc' = "construct" /\ op = "actor_path" /\ actor_id_1 \in Appearing =>
              Len(path') = Len(path) + 1]_vars

\* None was returned for a goal that lies in another component, after the
\* search had left the start actor.
NoneAcrossComponents ==
    /\ Done("actor_path") /\ args[1] \in Appearing /\ ret.tag = "None"
    /\ args[2] \cap Appearing # {}
    /\ Cardinality(seen) >= 2

(***************************************************************************)
(* C3.  When Bacon is a key of the adjacency map, records that pair an     *)
(* actor with themself included, actors_with_bacon_number(data, n) is      *)
(* exactly the set of the actors whose distance from Bacon is n.           *)
(***************************************************************************)
LayerIsExactDistance ==
    (Done("actors_with_bacon_number") /\ Bacon \in Appearing) =>
        /\ ret.tag = "value"
        /\ ret.val = AtDistance(Bacon, args[1])

(***************************************************************************)
(* C4.  When some actor of film A's cast can reach an actor of film B's    *)
(* cast, actors_connecting_films returns a path from an actor of A's cast  *)
(* to an actor of B's cast, as short as the shortest between the casts.    *)
(* Stated for the calls in which actors_in_a_movie gets both casts right   *)
(* (C7), so that a violation is the doing of actors_connecting_films.      *)
(***************************************************************************)
BridgeIsShortest ==
    (/\ Done("actors_connecting_films")
     /\ BothCastsRight
     /\ \E a \in Cast(args[1]) : Reachable(a) \cap Cast(args[2]) # {}) =>
        /\ ret.tag = "value"
        /\ LET p == ret.val
           IN  /\ Len(p) >= 1
               /\ p[1] \in Cast(args[1])
               /\ p[Len(p)] \in Cast(args[2])
               /\ \E a \in Cast(args[1]) : Within(a, Len(p) - 1) \cap Cast(args[2]) # {}
               /\ (Len(p) >= 2) =>
                      \A a \in Cast(args[1]) : Within(a, Len(p) - 2) \cap Cast(args[2]) = {}

(***************************************************************************)
(* C5.  For a reference or start actor R of no record, the queries return  *)
(* and raise nothing: the layer of Bacon number 1 is the empty set, and    *)
(* actor_path from R with the goal "any actor but R" returns None.         *)
(***************************************************************************)
NoCoStarsIsOrdinary ==
    /\ (Done("actors_with_bacon_number") /\ args[1] = 1 /\ Bacon \notin Appearing) =>
           (ret.tag = "value" /\ ret.val = {})
    /\ (Done("actor_path") /\ args[1] \notin Appearing /\ args[2] = ActorIds \ {args[1]}) =>
           (ret.tag = "None")

(***************************************************************************)
(* C6.  When no actor of film A's cast can reach an actor of film B's      *)
(* cast, actors_connecting_films returns, and does not raise.  Stated for  *)
(* two films that have a cast, which actors_in_a_movie gets right (C7).    *)
(***************************************************************************)
NoBridgeIsOrdinary ==
    (/\ Done("actors_connecting_films")
     /\ BothCastsRight
     /\ Cast(args[1]) # {} /\ Cast(args[2]) # {}
     /\ \A a \in Cast(args[1]) : Reachable(a) \cap Cast(args[2]) = {}) =>
        ret.tag # "raise"

(***************************************************************************)
(* C7.  actors_in_a_movie(data, F) is exactly the set of the actors of the *)
(* records labelled F, also when a later record labels the same pair of    *)
(* actors with another film.                                               *)
(***************************************************************************)
CastIsEveryActorOfTheFilm ==
    Done("actors_in_a_movie") => (ret.val = Cast(args[1]))

(***************************************************************************)
(* C8.  For a path that actor_path found over the same records, movie_path *)
(* resolves one film per link, in path order, none skipped: the film of    *)
(* the last record that pairs the two actors of the link, either first.    *)
(***************************************************************************)
FilmsAlongPath ==
    (Done("movie_path") /\ ret.tag = "value") =>
        LET p == Reverse(path)
        IN  /\ Len(ret.val) = Len(p) - 1
            /\ \A i \in 1 .. (Len(p) - 1) :
                   /\ CoStars(p[i], p[i + 1])
                   /\ ret.val[i] = LastFilm(p[i], p[i + 1])

\* A link of the path was resolved to the later of two films its actors
\* share, the two records naming them in opposite orders.
FilmOfLaterRecord ==
    /\ Done("movie_path") /\ ret.tag = "value" /\ Len(ret.val) >= 1
    /\ \E k \in DOMAIN data, m \in DOMAIN data :
           /\ k < m
           /\ data[k][1] = path[1] /\ data[k][2] = path[2]
           /\ data[m][1] = path[2] /\ data[m][2] = path[1]
           /\ data[k][3] # data[m][3]
           /\ ret.val[Len(ret.val)] = data[m][3]

(***************************************************************************)
(* C9.  actors_with_bacon_number(data, 0) is {Bacon} for every record      *)
(* list, the empty one and those without Bacon included.                   *)
(***************************************************************************)
LayerZeroIsBacon ==
    (Done("actors_with_bacon_number") /\ args[1] = 0) =>
        (ret.tag = "value" /\ ret.val = {Bacon})

(***************************************************************************)
(* C10.  acted_together(data, a, b) is True exactly when some record has a *)
(* and b as its two actors; a film id never makes it True.                 *)
(***************************************************************************)
ActedTogetherIffPaired ==
    Done("acted_together") => (ret.val <=> CoStars(args[1], args[2]))

====
